---- MODULE Spec2Model ----
(***************************************************************************)
(* Model of server_fixed.py: the Socket.IO event handlers (connect,        *)
(* disconnect, subscribe) that mutate the two module-level dicts           *)
(* connected_clients and client_subscriptions, and the background thread   *)
(* broadcast_frames that iterates client_subscriptions once per second.    *)
(*                                                                         *)
(* The handlers and the broadcast thread share the dicts without a lock.   *)
(* Each action below is one access to the shared dicts (one source line);  *)
(* steps that touch only locals are folded into the neighbouring access.   *)
(* client_subscriptions is iterated while other threads mutate it, so it   *)
(* is modelled as CPython keeps it: an insertion-ordered entry array with  *)
(* tombstones (cs_entries) beside the key -> set mapping, and an iterator  *)
(* that checks the dict's size on every step.                              *)
(***************************************************************************)
EXTENDS Integers, Sequences, FiniteSets, TLC

\* ---------------------------------------------------------------- bounds
MaxEvents == 4        \* inbound events (connect, disconnect, subscribe) in one behaviour
MaxTicks == 2         \* scheduler ticks in one behaviour

\* ------------------------------------------------------------- constants
Sids == {"a", "b"}                       \* request.sid values
Handlers == {"h1", "h2"}                 \* concurrently running handler threads
WellKnownTopic == "stream_frames"
Topics == {WellKnownTopic, ""}
NoSid == "-"                             \* no sid bound / tombstone in the entry array
NoTopic == "<none>"
DictUsable == 5                          \* entries an 8-slot CPython dict holds before it is rebuilt

\* Payloads a client may send with 'subscribe': a string, an object with or
\* without 'topic', null, a number, a list.
Payloads ==
    {[kind |-> "str", topic |-> t] : t \in Topics}
        \cup {[kind |-> "obj", topic |-> t] : t \in Topics}
        \cup {[kind |-> k, topic |-> NoTopic] : k \in {"obj_notopic", "none", "number", "list"}}

\* Payloads of 'request_image': objects whose 'type' is 'request', 'feedback' or
\* absent, null, and a non-empty string, a non-zero number, a non-empty list.
ImagePayloads == {"request", "feedback", "obj_notype", "none", "str", "number", "list"}

\* Payloads of 'recieved_data' and 'handle_data': a non-empty object, {}, null, and a
\* non-empty string, a non-zero number, a non-empty list.
DataPayloads == {"obj", "empty_obj", "none", "str", "number", "list"}

VARIABLES
    connected_clients,     \* sid -> [connected_at], a logical timestamp  (line 18)
    client_subscriptions,  \* sid -> set of topics             (line 19)
    cs_entries,            \* entry array of client_subscriptions, NoSid = deleted
    sessions,              \* sids the transport has opened (connect handler completed)
    nev,                   \* inbound events dispatched so far
    hpc, hsid, htopic,     \* per handler thread: position, request.sid, topic
    hdup,                  \* per handler: the add at line 62 found the topic present
    bpc,                   \* position of broadcast_frames
    i,                     \* its counter                      (line 141)
    frame_name,            \* counter baked into frame_name    (line 147), -1 = unset
    it,                    \* the dict iterator of lines 159 / 164
    cur,                   \* loop variable sid                (line 159)
    tick,                  \* number of the current loop iteration
    calls,                 \* generate_test_image calls of this tick
    reg_empty,             \* line 144 found connected_clients empty in this tick
    outcome,               \* how this tick's try block went
    sent,                  \* sid -> stream_frames events emitted to it in this tick
    received,              \* sid -> counters it was sent in earlier ticks
    steady,                \* sids connected and subscribed since the tick began
    gone,                  \* sids whose disconnect completed, not connected since
    tgone,                 \* gone as it was when the tick began
    owed,                  \* sid -> image requests it sent minus image replies sent to it
    asked,                 \* sids for which line 62 has added 'stream_frames'
    good                   \* ticks that ran from line 144 to line 167 with clients present

hvars == <<hpc, hsid, htopic, hdup>>
dvars == <<connected_clients, client_subscriptions, cs_entries, sessions>>
evars == <<nev>>
bvars == <<bpc, i, frame_name, it, cur, tick, calls, reg_empty, outcome, sent, received>>
gvars == <<steady, gone, tgone>>
avars == <<owed, asked, good>>
vars == <<dvars, evars, hvars, bvars, gvars, avars>>

\* ------------------------------------------------------- dict operations
\* d[k] = v on a mapping
MapSet(d, k, v) == [x \in (DOMAIN d) \cup {k} |-> IF x = k THEN v ELSE d[x]]

\* del d[k] on a mapping
MapDel(d, k) == [x \in (DOMAIN d) \ {k} |-> d[x]]

\* The entry array without its tombstones (what a rebuild keeps).
RECURSIVE Compact(_)
Compact(e) ==
    IF e = <<>> THEN <<>>
    ELSE IF Head(e) = NoSid THEN Compact(Tail(e))
    ELSE <<Head(e)>> \o Compact(Tail(e))

\* Entry array after d[k] = v: an existing key keeps its slot; a new key is
\* appended, after a rebuild when no usable slot is left.
EntriesSet(e, k) ==
    IF \E j \in 1..Len(e) : e[j] = k THEN e
    ELSE IF Len(e) >= DictUsable THEN Append(Compact(e), k)
    ELSE Append(e, k)

\* Entry array after del d[k]: the slot becomes a tombstone.
EntriesDel(e, k) == [j \in 1..Len(e) |-> IF e[j] = k THEN NoSid ELSE e[j]]

EmptyMap == [x \in {} |-> {}]
NoIter == [pos |-> 0, used |-> 0, len |-> 0]
ZeroSent == [s \in Sids |-> 0]
NoneReceived == [s \in Sids |-> {}]

\* ------------------------------------------------------------------ Init
Init ==
    /\ connected_clients = EmptyMap
    /\ client_subscriptions = EmptyMap
    /\ cs_entries = <<>>
    /\ sessions = {}
    /\ nev = 0
    /\ hpc = [h \in Handlers |-> "idle"]
    /\ hsid = [h \in Handlers |-> NoSid]
    /\ htopic = [h \in Handlers |-> NoTopic]
    /\ hdup = [h \in Handlers |-> FALSE]
    /\ bpc = "check"
    /\ i = 0
    /\ frame_name = -1
    /\ it = NoIter
    /\ cur = NoSid
    /\ tick = 1
    /\ calls = 0
    /\ reg_empty = FALSE
    /\ outcome = "pending"
    /\ sent = ZeroSent
    /\ received = NoneReceived
    /\ steady = {}
    /\ gone = {}
    /\ tgone = {}
    /\ owed = [s \in Sids |-> 0]
    /\ asked = {}
    /\ good = 0

\* ------------------------------------------------------ handler plumbing
ConnectPcs == {"c30"}
InFlight(s) == \E h \in Handlers : hpc[h] # "idle" /\ hsid[h] = s
ConnectInFlight(s) == \E h \in Handlers : hpc[h] \in ConnectPcs /\ hsid[h] = s

\* The handler returns: its thread is free again.
Return(h) ==
    /\ hpc' = [hpc EXCEPT ![h] = "idle"]
    /\ hsid' = [hsid EXCEPT ![h] = NoSid]
    /\ htopic' = [htopic EXCEPT ![h] = NoTopic]
    /\ hdup' = [hdup EXCEPT ![h] = FALSE]

Goto(h, pc) == hpc' = [hpc EXCEPT ![h] = pc]

\* Positions of a handler an exception is leaving, named by the line that raised:
\* KeyError at 45, 47 and 62, AttributeError at 57, 80 and 89.
PayloadRaisePcs == {"raise57", "raise80", "raise89"}
RaisedPcs == {"raise45", "raise47", "raise62"} \cup PayloadRaisePcs

\* The dispatcher hands an inbound event to a free handler thread. The threads are
\* interchangeable, so the first free one takes it.
Dispatch(h) ==
    /\ hpc[h] = "idle"
    /\ h = "h2" => hpc["h1"] # "idle"
    /\ nev < MaxEvents
    /\ nev' = nev + 1

\* ------------------------------------------------------- handle_connect
\* datetime.now(): later than the timestamp of any record it overwrites
Now(s) == IF s \in DOMAIN connected_clients THEN connected_clients[s].connected_at + 1 ELSE 1

\* line 24-29: sid = request.sid; connected_clients[sid] = {...}
\* The transport runs a session's connect handler before it dispatches any other
\* event of that sid, so no handler for s is running when connect(s) begins; it
\* may be a repeat for an id already registered.
Connect(h, s) ==
    /\ Dispatch(h)
    /\ ~InFlight(s)
    /\ connected_clients' = MapSet(connected_clients, s, [connected_at |-> Now(s)])
    /\ hpc' = [hpc EXCEPT ![h] = "c30"]
    /\ hsid' = [hsid EXCEPT ![h] = s]
    /\ gone' = gone \ {s}
    /\ tgone' = tgone \ {s}
    /\ UNCHANGED <<client_subscriptions, cs_entries, sessions, htopic, hdup, bvars, steady, avars>>

\* line 30-37: client_subscriptions[sid] = set(); emit('welcome', ...); the session is open
ConnectSubs(h) ==
    /\ hpc[h] = "c30"
    /\ client_subscriptions' = MapSet(client_subscriptions, hsid[h], {})
    /\ cs_entries' = EntriesSet(cs_entries, hsid[h])
    /\ steady' = steady \ {hsid[h]}
    /\ sessions' = sessions \cup {hsid[h]}
    /\ Return(h)
    /\ UNCHANGED <<connected_clients, bvars, evars, gone, tgone, avars>>

\* ---------------------------------------------------- handle_disconnect
\* line 42-44: sid = request.sid; if sid in connected_clients
\* request.sid names a session the transport opened; the event may be a repeat, and
\* may run beside a subscribe or another disconnect of the same sid.
Disconnect(h, s) ==
    /\ Dispatch(h)
    /\ s \in sessions
    /\ ~ConnectInFlight(s)
    /\ hpc' = [hpc EXCEPT ![h] = IF s \in DOMAIN connected_clients THEN "d45" ELSE "d46"]
    /\ hsid' = [hsid EXCEPT ![h] = s]
    /\ UNCHANGED <<dvars, htopic, hdup, bvars, gvars, avars>>

\* line 45: del connected_clients[sid]   (KeyError when another thread removed it)
DisconnectDelClient(h) ==
    /\ hpc[h] = "d45"
    /\ IF hsid[h] \in DOMAIN connected_clients
       THEN /\ connected_clients' = MapDel(connected_clients, hsid[h])
            /\ steady' = steady \ {hsid[h]}
            /\ Goto(h, "d46")
       ELSE /\ Goto(h, "raise45")
            /\ UNCHANGED <<connected_clients, steady>>
    /\ UNCHANGED <<client_subscriptions, cs_entries, sessions, hsid, htopic, hdup,
                   bvars, evars, gone, tgone, avars>>

\* Mutant of DisconnectCheckSubs: the handler forgets the subscription entry.
DisconnectCheckSubs_forget(h) ==
    /\ hpc[h] = "d46"
    /\ Return(h)
    /\ gone' = gone \cup {hsid[h]}
    /\ UNCHANGED <<dvars, evars, bvars, steady, tgone, avars>>

\* line 46: if sid in client_subscriptions   (falls off the end when absent)
DisconnectCheckSubs(h) ==
    /\ hpc[h] = "d46"
    /\ IF hsid[h] \in DOMAIN client_subscriptions
       THEN /\ Goto(h, "d47")
            /\ UNCHANGED <<hsid, htopic, hdup, gone>>
       ELSE /\ Return(h)
            /\ gone' = gone \cup {hsid[h]}
    /\ UNCHANGED <<dvars, evars, bvars, steady, tgone, avars>>

\* line 47: del client_subscriptions[sid]
DisconnectDelSubs(h) ==
    /\ hpc[h] = "d47"
    /\ IF hsid[h] \in DOMAIN client_subscriptions
       THEN /\ client_subscriptions' = MapDel(client_subscriptions, hsid[h])
            /\ cs_entries' = EntriesDel(cs_entries, hsid[h])
            /\ steady' = steady \ {hsid[h]}
            /\ gone' = gone \cup {hsid[h]}
            /\ Return(h)
       ELSE /\ Goto(h, "raise47")
            /\ UNCHANGED <<client_subscriptions, cs_entries, steady, gone, hsid, htopic, hdup>>
    /\ UNCHANGED <<connected_clients, sessions, evars, bvars, tgone, avars>>

\* An exception leaves the handler (the dispatcher logs it; the thread is free again).
HandlerRaise(h) ==
    /\ hpc[h] \in RaisedPcs
    /\ Return(h)
    /\ UNCHANGED <<dvars, evars, bvars, gvars, avars>>

\* ----------------------------------------------------- handle_subscribe
\* line 54-57: topic = data if isinstance(data, str) else data.get('topic', '')
\* (None, a number and a list have no .get: AttributeError)
TopicParses(data) == data.kind \in {"str", "obj", "obj_notopic"}
TopicOf(data) == IF data.kind = "obj_notopic" THEN "" ELSE data.topic

\* line 52-59: parse the payload; if sid not in client_subscriptions
\* Event handlers run on their own threads, so a session's subscribe may start
\* beside, or after, its disconnect.
Subscribe(h, s, data) ==
    /\ Dispatch(h)
    /\ s \in sessions
    /\ ~ConnectInFlight(s)
    /\ hsid' = [hsid EXCEPT ![h] = s]
    /\ IF TopicParses(data)
       THEN /\ htopic' = [htopic EXCEPT ![h] = TopicOf(data)]
            /\ Goto(h, IF s \notin DOMAIN client_subscriptions THEN "s60" ELSE "s62")
       ELSE /\ Goto(h, "raise57")
            /\ UNCHANGED htopic
    /\ UNCHANGED <<dvars, hdup, bvars, gvars, avars>>

\* line 60: client_subscriptions[sid] = set()
SubscribeInit(h) ==
    /\ hpc[h] = "s60"
    /\ client_subscriptions' = MapSet(client_subscriptions, hsid[h], {})
    /\ cs_entries' = EntriesSet(cs_entries, hsid[h])
    /\ steady' = steady \ {hsid[h]}
    /\ Goto(h, "s62")
    /\ UNCHANGED <<connected_clients, sessions, hsid, htopic, hdup, bvars, evars, gone, tgone, avars>>

\* Mutant of SetAdd: a second subscribe to a topic takes it out again.
SetAdd_toggle(S, t) == IF t \in S THEN S \ {t} ELSE S \cup {t}

\* set.add
SetAdd(S, t) == S \cup {t}

\* line 62: client_subscriptions[sid].add(topic)   (KeyError when the entry is gone)
SubscribeAdd(h) ==
    /\ hpc[h] = "s62"
    /\ IF hsid[h] \in DOMAIN client_subscriptions
       THEN /\ client_subscriptions' =
                   [client_subscriptions EXCEPT
                       ![hsid[h]] = SetAdd(client_subscriptions[hsid[h]], htopic[h])]
            /\ hdup' = [hdup EXCEPT ![h] = htopic[h] \in client_subscriptions[hsid[h]]]
            /\ asked' = IF htopic[h] = WellKnownTopic THEN asked \cup {hsid[h]} ELSE asked
            /\ Goto(h, "s65")
       ELSE /\ Goto(h, "raise62")
            /\ UNCHANGED <<client_subscriptions, hdup, asked>>
    /\ UNCHANGED <<connected_clients, cs_entries, sessions, evars, hsid, htopic, bvars, gvars,
                   owed, good>>

\* line 65-68: emit('subscription_confirmed', {'topic': topic, 'status': 'subscribed'})
SubscribeEmit(h) ==
    /\ hpc[h] = "s65"
    /\ Return(h)
    /\ UNCHANGED <<dvars, evars, bvars, gvars, avars>>

\* ------------------------------------------------- handle_request_image
\* line 89 / 95: data and data.get('type') == ...: a falsy payload short-circuits,
\* a truthy payload that is no dict has no .get
HasNoGet(kind) == kind \in {"str", "number", "list"}

\* line 85-90, 95-100: the request branch calls generate_test_image() (a fresh
\* 400 x 300 image, nothing shared); feedback and everything else only print and
\* return.
RequestImage(h, s, data) ==
    /\ Dispatch(h)
    /\ s \in sessions
    /\ ~ConnectInFlight(s)
    /\ IF HasNoGet(data)
       THEN /\ hsid' = [hsid EXCEPT ![h] = s]
            /\ Goto(h, "raise89")
            /\ UNCHANGED owed
       ELSE IF data = "request"
       THEN /\ hsid' = [hsid EXCEPT ![h] = s]
            /\ Goto(h, "r91")
            /\ owed' = [owed EXCEPT ![s] = @ + 1]
       ELSE UNCHANGED <<hpc, hsid, owed>>
    /\ UNCHANGED <<dvars, htopic, hdup, bvars, gvars, asked, good>>

\* (a variant: emit(..., broadcast=True) goes to every connected client)
ReplyTo_broadcast(h) == DOMAIN connected_clients

\* emit(...) inside a handler, without room or broadcast: to request.sid alone
ReplyTo(h) == {hsid[h]}

\* line 91-92: emit('request_image', {'type': 'response', 'image_data': img_data})
RequestEmit(h) ==
    /\ hpc[h] = "r91"
    /\ owed' = [t \in Sids |-> IF t \in ReplyTo(h) THEN owed[t] - 1 ELSE owed[t]]
    /\ Return(h)
    /\ UNCHANGED <<dvars, evars, bvars, gvars, asked, good>>

\* ------------------------------------- process_data / handle_recieved_data
\* line 70-80, 'recieved_data': a truthy payload is printed; a falsy one reaches
\* data.get("data") at line 80, which only {} has.
ReceivedData(h, s, data) ==
    /\ Dispatch(h)
    /\ s \in sessions
    /\ ~ConnectInFlight(s)
    /\ IF data = "none"
       THEN /\ hsid' = [hsid EXCEPT ![h] = s]
            /\ Goto(h, "raise80")
       ELSE UNCHANGED <<hpc, hsid>>
    /\ UNCHANGED <<dvars, htopic, hdup, bvars, gvars, avars>>

\* line 172-189, 'handle_data': prints, then calls the process_data of line 185 (pass)
HandleData(h, s, data) ==
    /\ Dispatch(h)
    /\ s \in sessions
    /\ ~ConnectInFlight(s)
    /\ UNCHANGED <<dvars, hvars, bvars, gvars, avars>>

\* ----------------------------------------------------- broadcast_frames
\* len(d)
DictLen(d) == Cardinality(DOMAIN d)

\* iter(d.items()) / iter(d.values()): remembers the size it started with
NewIter == [pos |-> 1, used |-> DictLen(client_subscriptions),
            len |-> DictLen(client_subscriptions)]

\* next(iterator): "changed" (RuntimeError), "stop" (exhausted) or the slot it yields
IterSlots == {j \in it.pos..Len(cs_entries) : cs_entries[j] # NoSid}
IterFirst == CHOOSE j \in IterSlots : \A k \in IterSlots : j <= k
IterStep ==
    IF it.used # DictLen(client_subscriptions) THEN "changed"
    ELSE IF IterSlots = {} THEN "stop"
    ELSE IF it.len = 0 THEN "changed"
    ELSE "yield"

\* Mutant of RegistryNonEmpty: the loop looks at the subscription table instead.
RegistryNonEmpty_subs == DOMAIN client_subscriptions # {}

\* line 144: if connected_clients
RegistryNonEmpty == DOMAIN connected_clients # {}

\* (a variant: any subscription at all qualifies)
Wanted_any(subscriptions) == subscriptions # {}

\* line 160: if 'stream_frames' in subscriptions
Wanted(subscriptions) == WellKnownTopic \in subscriptions

\* The next loop iteration begins (after time.sleep(1)): per-tick bookkeeping restarts.
TickStart ==
    /\ tick < MaxTicks
    /\ tick' = tick + 1
    /\ bpc' = "check"
    /\ frame_name' = -1
    /\ it' = NoIter
    /\ cur' = NoSid
    /\ calls' = 0
    /\ reg_empty' = FALSE
    /\ outcome' = "pending"
    /\ received' = [s \in Sids |-> IF sent[s] > 0 THEN received[s] \cup {frame_name}
                                   ELSE received[s]]
    /\ sent' = ZeroSent
    /\ steady' = {s \in (DOMAIN connected_clients) \cap (DOMAIN client_subscriptions) :
                    Wanted(client_subscriptions[s])}
    /\ tgone' = gone
    /\ good' = IF bpc = "sleep" /\ ~reg_empty /\ outcome = "pending" THEN good + 1 ELSE good
    /\ UNCHANGED <<dvars, evars, hvars, i, gone, owed, asked>>

\* line 144
BCheck ==
    /\ bpc = "check"
    /\ reg_empty' = (DOMAIN connected_clients = {})
    /\ bpc' = IF RegistryNonEmpty THEN "produce" ELSE "sleep"
    /\ UNCHANGED <<dvars, evars, hvars, gvars, i, frame_name, it, cur, tick, calls, outcome,
                   sent, received, avars>>

\* line 146-159: generate_test_image(); frame_name = f"test_frame_{i}"; start the for loop
BProduce ==
    /\ bpc = "produce"
    /\ calls' = calls + 1
    /\ \/ /\ frame_name' = i
          /\ it' = NewIter
          /\ bpc' = "next"
          /\ UNCHANGED outcome
       \/ /\ outcome' = "produce_failed"
          /\ bpc' = "except"
          /\ UNCHANGED <<frame_name, it>>
    /\ UNCHANGED <<dvars, evars, hvars, gvars, i, cur, tick, reg_empty, sent, received, avars>>

\* (An iterator the loop has left, by exhaustion or by an exception, is dropped.)
\* line 159-160: for sid, subscriptions in client_subscriptions.items(): if ... in subscriptions
BNext ==
    /\ bpc = "next"
    /\ CASE IterStep = "changed" ->
              /\ outcome' = "iter_failed"
              /\ bpc' = "except"
              /\ it' = NoIter
              /\ UNCHANGED cur
         [] IterStep = "stop" ->
              /\ bpc' = "count"
              /\ UNCHANGED <<it, cur, outcome>>
         [] IterStep = "yield" ->
              /\ it' = [it EXCEPT !.pos = IterFirst + 1, !.len = it.len - 1]
              /\ cur' = cs_entries[IterFirst]
              /\ bpc' = IF Wanted(client_subscriptions[cs_entries[IterFirst]])
                        THEN "emit" ELSE "next"
              /\ UNCHANGED outcome
    /\ UNCHANGED <<dvars, evars, hvars, gvars, i, frame_name, tick, calls, reg_empty, sent, received, avars>>

\* line 161-162: socketio.emit('stream_frames', frame_data, room=sid), which may raise
BEmit ==
    /\ bpc = "emit"
    /\ \/ /\ sent' = [sent EXCEPT ![cur] = @ + 1]
          /\ bpc' = "next"
          /\ UNCHANGED <<outcome, it>>
       \/ /\ outcome' = "send_failed"
          /\ bpc' = "except"
          /\ it' = NoIter
          /\ UNCHANGED sent
    /\ UNCHANGED <<dvars, evars, hvars, gvars, i, frame_name, cur, tick, calls, reg_empty, received, avars>>

\* line 164: len([s for s in client_subscriptions.values() if ...]): a second iteration
BCount ==
    /\ bpc = "count"
    /\ it' = NewIter
    /\ bpc' = "cnext"
    /\ UNCHANGED <<dvars, evars, hvars, gvars, i, frame_name, cur, tick, calls, reg_empty, outcome,
                   sent, received, avars>>

\* (a variant: i += 1 placed where a failed tick runs it too)
BCountNext_always ==
    /\ bpc = "cnext"
    /\ CASE IterStep = "changed" ->
              /\ outcome' = "count_failed"
              /\ bpc' = "except"
              /\ it' = NoIter
              /\ i' = i + 1
         [] IterStep = "stop" ->
              /\ i' = i + 1
              /\ bpc' = "sleep"
              /\ it' = NoIter
              /\ UNCHANGED outcome
         [] IterStep = "yield" ->
              /\ it' = [it EXCEPT !.pos = IterFirst + 1, !.len = it.len - 1]
              /\ UNCHANGED <<bpc, i, outcome>>
    /\ UNCHANGED <<dvars, evars, hvars, gvars, frame_name, cur, tick, calls, reg_empty, sent, received, avars>>

\* line 164-165: one step of that iteration; when it is exhausted, print and i += 1
BCountNext ==
    /\ bpc = "cnext"
    /\ CASE IterStep = "changed" ->
              /\ outcome' = "count_failed"
              /\ bpc' = "except"
              /\ it' = NoIter
              /\ UNCHANGED i
         [] IterStep = "stop" ->
              /\ i' = i + 1
              /\ bpc' = "sleep"
              /\ it' = NoIter
              /\ UNCHANGED outcome
         [] IterStep = "yield" ->
              /\ it' = [it EXCEPT !.pos = IterFirst + 1, !.len = it.len - 1]
              /\ UNCHANGED <<bpc, i, outcome>>
    /\ UNCHANGED <<dvars, evars, hvars, gvars, frame_name, cur, tick, calls, reg_empty, sent, received, avars>>

\* line 167: time.sleep(1), then the next iteration of while True
BSleep ==
    /\ bpc = "sleep"
    /\ TickStart

\* (a variant: the exception is not caught and ends the thread)
BExcept_uncaught ==
    /\ bpc = "except"
    /\ bpc' = "dead"
    /\ UNCHANGED <<dvars, evars, hvars, gvars, avars, i, frame_name, it, cur, tick, calls,
                   reg_empty, outcome, sent, received>>

\* line 168-170: except Exception: print, time.sleep(1), then the next iteration
BExcept ==
    /\ bpc = "except"
    /\ TickStart

HandlerNext ==
    \/ \E h \in Handlers, s \in Sids : Connect(h, s)
    \/ \E h \in Handlers : ConnectSubs(h)
    \/ \E h \in Handlers, s \in Sids : Disconnect(h, s)
    \/ \E h \in Handlers : DisconnectDelClient(h)
    \/ \E h \in Handlers : DisconnectCheckSubs(h)
    \/ \E h \in Handlers : DisconnectDelSubs(h)
    \/ \E h \in Handlers, s \in Sids, data \in Payloads : Subscribe(h, s, data)
    \/ \E h \in Handlers : SubscribeInit(h)
    \/ \E h \in Handlers : SubscribeAdd(h)
    \/ \E h \in Handlers : SubscribeEmit(h)
    \/ \E h \in Handlers : HandlerRaise(h)

BroadcastNext ==
    \/ BCheck
    \/ BProduce
    \/ BNext
    \/ BEmit
    \/ BCount
    \/ BCountNext
    \/ BSleep
    \/ BExcept

Next == HandlerNext \/ BroadcastNext

Spec == Init /\ [][Next]_vars

\* Only connect and disconnect events arrive (no subscribe; the broadcast thread
\* never writes the dicts and is left out).
LifecycleNext ==
    \/ \E h \in Handlers, s \in Sids : Connect(h, s)
    \/ \E h \in Handlers : ConnectSubs(h)
    \/ \E h \in Handlers, s \in Sids : Disconnect(h, s)
    \/ \E h \in Handlers : DisconnectDelClient(h)
    \/ \E h \in Handlers : DisconnectCheckSubs(h)
    \/ \E h \in Handlers : DisconnectDelSubs(h)
    \/ \E h \in Handlers : HandlerRaise(h)

SpecLifecycle == Init /\ [][LifecycleNext]_vars

\* The broadcast loop beside one handler thread: events are handled one at a
\* time, each interleaved line by line with the loop.
LoopNext ==
    \/ \E s \in Sids : Connect("h1", s)
    \/ ConnectSubs("h1")
    \/ \E s \in Sids : Disconnect("h1", s)
    \/ DisconnectDelClient("h1")
    \/ DisconnectCheckSubs("h1")
    \/ DisconnectDelSubs("h1")
    \/ \E s \in Sids, data \in Payloads : Subscribe("h1", s, data)
    \/ SubscribeInit("h1")
    \/ SubscribeAdd("h1")
    \/ SubscribeEmit("h1")
    \/ HandlerRaise("h1")
    \/ BroadcastNext

\* The broadcast thread is a daemon thread of its own (line 194): whenever it has
\* a step to take it eventually takes one, whatever the handlers do.
SpecLoopFair == Init /\ [][LoopNext]_vars /\ WF_vars(BroadcastNext)

\* The handlers that touch neither table: request_image, recieved_data, handle_data.
PayloadNext ==
    \/ \E h \in Handlers, s \in Sids, data \in ImagePayloads : RequestImage(h, s, data)
    \/ \E h \in Handlers : RequestEmit(h)
    \/ \E h \in Handlers, s \in Sids, data \in DataPayloads : ReceivedData(h, s, data)
    \/ \E h \in Handlers, s \in Sids, data \in DataPayloads : HandleData(h, s, data)

\* The whole server: the registry and subscription handlers, the broadcast loop,
\* and the handlers that touch neither table.
RouterNext == Next \/ PayloadNext

SpecRouter == Init /\ [][RouterNext]_vars

\* Connections coming and going while they send request_image, recieved_data and
\* handle_data events.
RequestsNext == LifecycleNext \/ PayloadNext

SpecRequests == Init /\ [][RequestsNext]_vars

\* ---------------------------------------------------------------- claims
Registered == DOMAIN connected_clients
Tabled == DOMAIN client_subscriptions
TickOver == bpc \in {"sleep", "except"}
Attempted(s) == sent[s] > 0 \/ (outcome = "send_failed" /\ cur = s)

\* The model's own bookkeeping: the entry array and the mapping describe one dict.
TypeOK ==
    /\ Tabled = {cs_entries[j] : j \in 1..Len(cs_entries)} \ {NoSid}
    /\ \A j, k \in 1..Len(cs_entries) :
          (cs_entries[j] = cs_entries[k] /\ cs_entries[j] # NoSid) => j = k
    /\ Len(cs_entries) <= DictUsable
    /\ \A s \in Tabled : client_subscriptions[s] \subseteq Topics
    /\ Registered \subseteq Sids

C2_NoOrphanAfterRace ==
    \A s \in Sids : ~InFlight(s) => (s \in Tabled => s \in Registered)

\* C3: when the broadcast loop is about to emit stream_frames to an id
\* (line 161), that id is in connected_clients.
C3_EmitOnlyToRegistered ==
    bpc = "emit" => cur \in Registered

\* C4: when a send raised in this tick, every connection that was connected and
\* subscribed to 'stream_frames' throughout the tick had its send attempted.
C4_SendFailureIsolated ==
    (bpc = "except" /\ outcome = "send_failed") => \A s \in steady : Attempted(s)

\* C5: the fan-out never fails because the dict changed under it, and a tick
\* that met no production or send failure has sent to every connection that
\* stayed connected and subscribed throughout.
C5_MutationDuringFanout ==
    /\ outcome # "iter_failed"
    /\ (bpc = "sleep" /\ ~reg_empty) => \A s \in steady : sent[s] >= 1

\* C6: no tick that began after an id's disconnect completed (the id not having
\* connected again) sends stream_frames to that id.
C6_NoSendAfterDisconnect ==
    \A s \in Sids : sent[s] > 0 => s \notin tgone

\* C7: at the end of a tick without a production or send failure, every
\* connection that was connected and subscribed throughout has been sent
\* exactly one stream_frames event.
C7_ExactlyOnePerTick ==
    (TickOver /\ ~reg_empty /\ outcome \in {"pending", "iter_failed", "count_failed"})
        => \A s \in steady : sent[s] = 1

\* C8: a tick whose registry check (line 144) found connected_clients empty
\* makes no call to generate_test_image and no send.
C8_EmptyRegistrySkips ==
    reg_empty => (calls = 0 /\ \A s \in Sids : sent[s] = 0)

\* C8 witness: such a tick has ended, although an orphaned entry subscribed to
\* 'stream_frames' sits in client_subscriptions.
C8_Witness ==
    /\ reg_empty
    /\ bpc = "sleep"
    /\ \E s \in Tabled : Wanted(client_subscriptions[s])

\* C9: a subscribe whose topic is already in the id's set leaves
\* client_subscriptions as it was (the id stays a member once).
C9_SubscribeIdempotent ==
    [][\A h \in Handlers :
          (hpc[h] = "s62" /\ hpc'[h] = "s65" /\ htopic[h] \in client_subscriptions[hsid[h]])
              => (client_subscriptions' = client_subscriptions /\ cs_entries' = cs_entries)]_vars

\* C9 witness: a handler has just added a topic that was already present.
C9_Witness ==
    \E h \in Handlers : hpc[h] = "s65" /\ hdup[h]

\* C10: no connection is sent, in the current tick, a counter value it was
\* already sent in an earlier tick.
C10_CounterNeverRepeats ==
    \A s \in Sids : sent[s] > 0 => frame_name \notin received[s]

\* C11: no handler of subscribe, request_image, recieved_data or handle_data is
\* ever left by an exception its payload's shape caused (a string, an object
\* with or without the expected fields, null, a number, a list).
C11_NoPayloadRaises ==
    \A h \in Handlers : hpc[h] \notin PayloadRaisePcs

\* C12: a connect event for an id that is already in connected_clients leaves
\* the id's record as it was, and leaves the id's subscription set as it was.
C12_DuplicateConnectRejected ==
    [][\A h \in Handlers :
          /\ \A s \in Registered :
                (hpc[h] = "idle" /\ hpc'[h] = "c30" /\ hsid'[h] = s)
                    => connected_clients'[s] = connected_clients[s]
          /\ (/\ hpc[h] = "c30" /\ hpc'[h] = "idle"
              /\ connected_clients[hsid[h]].connected_at > 1
              /\ hsid[h] \in Tabled)
                 => client_subscriptions'[hsid[h]] = client_subscriptions[hsid[h]]]_vars

\* C13: no disconnect handler is left by an exception: a disconnect that finds
\* its id gone from either dict, also one overtaken between its check and its
\* del by a second disconnect of the same id, raises nothing.
C13_DisconnectNeverRaises ==
    \A h \in Handlers : hpc[h] \notin {"raise45", "raise47"}

\* Handlers of request_image events of id s that have not replied yet.
Replying(s) == {h \in Handlers : hpc[h] = "r91" /\ hsid[h] = s}

\* C14: a request_image event of type 'request' from an id is answered by one
\* request_image reply sent to that id and to nobody else (after every step each
\* id is owed as many replies as it has requests in progress, so none is missing,
\* doubled or misdirected), and the steps of that handler leave
\* connected_clients, client_subscriptions, the counter i and the stream_frames
\* sends as they were.
C14_RequestRepliesToSender ==
    [][/\ \A s \in Sids : owed'[s] = Cardinality(Replying(s))'
       /\ \A h \in Handlers :
             (hpc'[h] # hpc[h] /\ "r91" \in {hpc[h], hpc'[h]})
                 => UNCHANGED <<connected_clients, client_subscriptions, cs_entries,
                                i, sent, received>>]_vars

\* C14 witness: an id's request is about to be answered while the other id is
\* connected and owed nothing.
C14_Witness ==
    \E h \in Handlers, t \in Registered :
        /\ hpc[h] = "r91"
        /\ t # hsid[h]
        /\ owed[hsid[h]] = 1
        /\ owed[t] = 0

\* C15: across every step that leaves an id in client_subscriptions, the id's
\* topic set keeps every topic it had (a set shrinks only by being deleted
\* whole, at the id's disconnect).
C15_TopicsOnlyGrow ==
    [][\A s \in Tabled :
          s \in DOMAIN client_subscriptions'
              => client_subscriptions[s] \subseteq client_subscriptions'[s]]_vars

\* C16: a tick whose try block raised (production, a send, or either iteration
\* failed) is over without another send, and the loop goes on: from the except
\* clause of tick k the loop always reaches tick k + 1, and every tick of the loop
\* comes to its end.
C16_LoopSurvivesErrors ==
    /\ [][bpc = "except" /\ tick' = tick => sent' = sent /\ bpc' = "except"]_vars
    /\ \A k \in 1..(MaxTicks - 1) :
          /\ (tick = k /\ bpc = "except") ~> (tick = k + 1 /\ bpc = "check")
          /\ (tick = k) ~> (tick = k + 1)

\* C16 witness: the first tick sent a frame and then failed, and the loop is
\* running the second tick.
C16_Witness ==
    /\ tick = 2
    /\ bpc = "produce"
    /\ i = 0
    /\ \E s \in Sids : 0 \in received[s]

\* C17: the loop emits stream_frames only to ids whose subscription set has held
\* 'stream_frames': an id that subscribed to nothing, or only to other topics
\* (the empty string included), is never the target of an emit and has never
\* received a frame.
C17_OnlySubscribersReceive ==
    \A s \in Sids :
        (sent[s] > 0 \/ received[s] # {} \/ (bpc = "emit" /\ cur = s)) => s \in asked

\* C17 witness: a fan-out has finished in which one id received the frame and
\* another id, subscribed to the empty-string topic only, was passed over.
C17_Witness ==
    /\ bpc \in {"count", "cnext", "sleep"}
    /\ \E s, t \in Tabled :
          /\ sent[s] = 1
          /\ client_subscriptions[t] = {""}
          /\ t \notin asked
          /\ sent[t] = 0

\* C18: a subscribe whose payload is an object without 'topic' takes the
\* empty string as its topic, line 62 records the handler's topic in the
\* sender's set, and every subscribe handler ends by the emit of
\* subscription_confirmed (line 65), never otherwise.
C18_SubscribeConfirmed ==
    [][\A h \in Handlers :
          /\ \A s \in Sids :
                Subscribe(h, s, [kind |-> "obj_notopic", topic |-> NoTopic])
                    => htopic'[h] = ""
          /\ (hpc[h] = "s62" /\ hpc'[h] = "s65")
                => htopic[h] \in client_subscriptions'[hsid[h]]
          /\ (hpc[h] \in {"s60", "s62", "s65", "raise57", "raise62"} /\ hpc'[h] = "idle")
                => hpc[h] = "s65"]_vars

\* The tick in progress has run its try block to the end (line 167) with clients present.
Completed == bpc = "sleep" /\ ~reg_empty /\ outcome = "pending"

\* C19: i counts the ticks that ran to the end of the try block with a non-empty
\* registry (good counts the earlier ones, Completed the one in progress), and a
\* tick's frame_name is that count: a tick that failed partway is followed by a
\* tick with the same frame_name.
C19_CounterCountsCompletedTicks ==
    /\ i = good + (IF Completed THEN 1 ELSE 0)
    /\ frame_name \in {-1, good}

\* C19 witness: the first tick sent test_frame_0 and failed, and the second
\* tick is fanning out test_frame_0 again.
C19_Witness ==
    /\ tick = 2
    /\ bpc \in {"next", "emit"}
    /\ frame_name = 0
    /\ \E s \in Sids : 0 \in received[s]

====
